---- MODULE Spec2Model ----
(***************************************************************************)
(* speech-cache: a text-to-speech proxy (src/main.rs).  GET /speak checks  *)
(* the text length, builds a cache key, looks the key up in a byte-bounded *)
(* LRU cache behind one mutex, and on a miss calls the provider, re-encodes*)
(* the audio with the requested volume factor, inserts it and answers.     *)
(*                                                                         *)
(* The server runs one worker (.workers(1)): request tasks interleave only *)
(* at their two await points (send().await and bytes().await).  `running`  *)
(* is the task the worker is polling; every other task is idle, suspended  *)
(* at an await, or finished.                                               *)
(***************************************************************************)
EXTENDS Integers, Sequences, FiniteSets

VARIABLES
    speech_cache,   \* SharedState.speech_cache: entries, least recently used first
    lock,           \* holder of AppState.shared (the Mutex): a task, or 0
    running,        \* the request task the single worker is polling, or 0
    pc,             \* pc[t]: where the handler of task t stands
    info,           \* info[t]: the query parameters of task t's request
    res,            \* res[t]: what the provider answered to task t's POST
    result_bytes,   \* result_bytes[t]: the handler's bytes (cached or received)
    calls,          \* calls[t]: POSTs sent to the provider for task t's request
    locks,          \* locks[t]: times task t's request acquired the mutex
    follows,        \* follows[t]: t's request arrived right after `delivered`
    access_order,   \* keys of the cache by their last access, oldest first
    ejected,        \* keys the insert just made removed (until it answers)
    replaced,       \* the value the insert just found under its key, if any
                    \* (until it answers)
    main,           \* fn main: where it stands, the secrets file it finds,
                    \* whether the listener is bound and the port printed
    delivered       \* the latest finished request and its response, kept
                    \* until another request takes a step

vars == <<speech_cache, lock, running, pc, info, res, result_bytes, calls,
          locks, follows, access_order, ejected, replaced, main, delivered>>

----------------------------------------------------------------------------
(* Bounds of the model *)

\* Requests in flight at a time: a task slot is free again once its request
\* is answered.
MaxInFlight == 2

Tasks == 1 .. MaxInFlight

----------------------------------------------------------------------------
(* Texts.  A text is a sequence of runs [w |-> bytes per character in      *)
(* UTF-8, n |-> number of such characters]: "hi" is <<[w |-> 1, n |-> 2]>>.*)

RECURSIVE Utf8Len(_)
\* String::len(): the length of the text in bytes.
Utf8Len(text) ==
    IF text = <<>> THEN 0
    ELSE Head(text).w * Head(text).n + Utf8Len(Tail(text))

RECURSIVE CharCount(_)
\* The number of characters of the text (text.chars().count()).
CharCount(text) ==
    IF text = <<>> THEN 0
    ELSE Head(text).n + CharCount(Tail(text))

Run(w, n) == [w |-> w, n |-> n]

TextLimit == 100

Absent == "None"

\* if info.text.len() > 100
text_too_long_off_by_one(p) == Utf8Len(p.text) >= TextLimit
text_too_long(p) == Utf8Len(p.text) > TextLimit

\* info.volume.unwrap_or(NotNan::new(1.0).unwrap())
volume_factor(p) == IF p.volume = Absent THEN "1.0" ELSE p.volume

openai_params(p) ==
    [model |-> "tts-1",
     voice |-> IF p.voice = Absent THEN "echo" ELSE p.voice,
     input |-> p.text,
     response_format |-> "mp3"]

\* A variant that keys on the volume as the query gave it.
cache_key_raw_volume(p) ==
    [request |-> openai_params(p), volume_factor |-> p.volume]

cache_key_without_volume(p) == [request |-> openai_params(p), volume_factor |-> "1.0"]
cache_key(p) == [request |-> openai_params(p), volume_factor |-> volume_factor(p)]

\* String::capacity() of a string built by to_string() or clone(): its length.
StrLen(s) ==
    CASE s = "tts-1" -> 5
      [] s = "mp3"   -> 3
      [] s = "echo"  -> 4
      [] s = "nova"  -> 4
      [] s = "alloy" -> 5

\* impl HeapSize for OpenaiSpeechRequestInfo
request_heap_size(q) ==
    StrLen(q.model) + StrLen(q.voice) + Utf8Len(q.input) + StrLen(q.response_format)

\* impl HeapSize for CacheKey; a NotNan<f32> owns no heap memory.
key_heap_size(k) == request_heap_size(k.request) + 0

----------------------------------------------------------------------------
(* Audio.  Bytes are described by what they hold: who produced them, for   *)
(* which request descriptor, how many seconds of audio they hold,           *)
(* which gain was applied, and how long the byte sequence is.              *)

\* Bitrate::Kbps192: a constant-bitrate stream of 192 kbit/s.
EncodedLen(secs) == secs * ((192 * 1000) \div 8)

\* The provider's own encoding of `secs` seconds of speech.
ProviderLen(secs) == secs * ((64 * 1000) \div 8)

NoBytes == [codec |-> "none"]

ProviderAudio(d, secs) ==
    [codec |-> "mp3", by |-> "provider", desc |-> d,
     secs |-> secs, gain |-> "none", len |-> ProviderLen(secs)]

\* A 200 response whose body is not audio any decoder recognises.
ProviderJunk(d) ==
    [codec |-> "unknown", by |-> "provider", desc |-> d,
     secs |-> 0, gain |-> "none", len |-> 64]

\* .expect("Unsupported format"): the probe recognises no container.
apply_volume_factor_panics(audio_file) == audio_file.codec # "mp3"

\* A variant that hands the file on untouched when the gain is 1.0.
apply_volume_factor_skip_identity(audio_file, gain) ==
    IF gain = "1.0" THEN audio_file
    ELSE [codec |-> "mp3", by |-> "lame", desc |-> audio_file.desc,
          secs |-> audio_file.secs, gain |-> gain,
          len |-> EncodedLen(audio_file.secs)]

apply_volume_factor_passthrough(audio_file, gain) == audio_file
\* Decode channel 0, multiply every sample by the gain, encode with LAME.
apply_volume_factor(audio_file, gain) ==
    [codec |-> "mp3", by |-> "lame", desc |-> audio_file.desc, secs |-> audio_file.secs, gain |-> gain,
     len |-> EncodedLen(audio_file.secs)]

----------------------------------------------------------------------------
(* The cache: lru_mem::LruCache<CacheKey, Vec<u8>>, a sequence of entries  *)
(* [key, value] from the least to the most recently used.                  *)

max_size_doubled == 2 * (16 * 1024 * 1024)
\* LruCache::new(16 * 1024 * 1024)
max_size == 16 * 1024 * 1024

\* The size the cache accounts for an entry: the heap memory of the key and
\* of the value (a Vec<u8> holding the bytes).  A fixed size per entry that
\* the library adds on top only lowers the sums it allows.
entry_size(k, v) == key_heap_size(k) + v.len

RECURSIVE current_size(_)
current_size(c) ==
    IF c = <<>> THEN 0
    ELSE entry_size(Head(c).key, Head(c).value) + current_size(Tail(c))

Keys(c) == {c[i].key : i \in 1 .. Len(c)}

IndexOf(c, k) == (CHOOSE i \in 1 .. Len(c) : c[i].key = k)

Without(c, k) == SelectSeq(c, LAMBDA e : e.key # k)

\* LruCache::peek: the value, the order left as it is.
LruPeek(c, k) ==
    IF k \in Keys(c)
    THEN [hit |-> TRUE, value |-> c[IndexOf(c, k)].value, cache |-> c]
    ELSE [hit |-> FALSE, value |-> NoBytes, cache |-> c]

\* LruCache::get: on a hit the entry becomes the most recently used.
LruGet(c, k) ==
    IF k \in Keys(c)
    THEN [hit |-> TRUE, value |-> c[IndexOf(c, k)].value,
          cache |-> Append(Without(c, k), c[IndexOf(c, k)])]
    ELSE [hit |-> FALSE, value |-> NoBytes, cache |-> c]

RECURSIVE EjectToFit(_, _)
\* Least recently used entries are removed until `need` more bytes fit.
EjectToFit(c, need) ==
    IF c = <<>> \/ current_size(c) + need <= max_size THEN c
    ELSE EjectToFit(Tail(c), need)

\* A variant that adds the entry and leaves an older one of the same key.
LruInsertKeepsOld(c, k, v) ==
    IF entry_size(k, v) > max_size THEN c
    ELSE Append(EjectToFit(c, entry_size(k, v)), [key |-> k, value |-> v])

\* LruCache::insert: an entry larger than the whole cache is refused
\* (Err(EntryTooLarge), the cache untouched); otherwise the key's old entry
\* is replaced, room is made and the entry becomes the most recently used.
LruInsert(c, k, v) ==
    IF entry_size(k, v) > max_size THEN c
    ELSE Append(EjectToFit(Without(c, k), entry_size(k, v)),
                [key |-> k, value |-> v])

\* A variant that takes the entry out of the cache on a hit.
speech_cache_remove(c, k) ==
    [hit |-> LruPeek(c, k).hit, value |-> LruPeek(c, k).value,
     cache |-> Without(c, k)]

\* state.shared.lock().speech_cache.get(&cache_key)
speech_cache_peek(c, k) == LruPeek(c, k)
speech_cache_get(c, k) == LruGet(c, k)

\* A variant that leaves a key's old value where there is one.
speech_cache_insert_if_absent(c, k, v) ==
    IF k \in Keys(c) THEN c ELSE LruInsert(c, k, v)

speech_cache_insert_skipped(c, k, v) == c
\* state.shared.lock().speech_cache.insert(cache_key, result_bytes.clone().into())
speech_cache_insert(c, k, v) == LruInsert(c, k, v)

----------------------------------------------------------------------------
(* Requests and responses *)

Hi == <<Run(1, 2)>>
TooLong == <<Run(1, TextLimit + 1)>>

Params(text, voice, volume) == [text |-> text, voice |-> voice, volume |-> volume]

NoParams == Params(<<>>, Absent, Absent)

\* The requests clients send in the main specification.
Menu ==
    {Params(Hi, Absent, Absent), Params(Hi, Absent, "2.0"),
     Params(Hi, "nova", Absent), Params(TooLong, Absent, Absent)}

\* The lengths of audio, in seconds, the provider answers with.
Durations == {300, 400, 700}

\* const CACHE_DURATION: u64 = 60 * 60 * 24 * 7
CACHE_DURATION == 60 * 60 * 24 * 7

\* HttpResponse::BadRequest().body("text too long")
BadRequest == [status |-> 400, body |-> "text too long"]

\* HttpResponse::Ok() with content type, Cache-Control and the bytes
OkAudio(bytes) ==
    [status |-> 200, content_type |-> "audio/mpeg",
     max_age |-> CACHE_DURATION, body |-> bytes]

\* HttpResponse::InternalServerError().body(format!(...))
ServerError(text) == [status |-> 500, body |-> text]

\* The handler panicked: the task ends and the client gets no response.
Aborted == [status |-> 0, body |-> "panic"]

NoRes == [kind |-> "none"]

\* Of a provider reply, whether it is an error and its status.
Summary(reply) ==
    IF reply.kind = "Ok" THEN [kind |-> "Ok", status |-> reply.status]
    ELSE [kind |-> reply.kind, status |-> 0]

NoReply == [info |-> NoParams, resp |-> [status |-> 0, body |-> "none"],
            res |-> Summary(NoRes), calls |-> 0, locks |-> 0]

\* What send().await may yield: an error, or a response with its status.
Outcomes ==
    {[kind |-> "Err"], [kind |-> "Ok", status |-> 500],
     [kind |-> "Ok", status |-> 200]}

\* What res.bytes().await may yield for the request with parameters p: an
\* error, or the body the provider sent.
Bodies(p) ==
    {[kind |-> "Err"],
     [kind |-> "Ok", bytes |-> ProviderJunk(openai_params(p))]}
    \cup {[kind |-> "Ok", bytes |-> ProviderAudio(openai_params(p), secs)] :
              secs \in Durations}

status_unchecked(reply) == TRUE
\* if res.status() != 200 { return InternalServerError }
status_is_200(reply) == reply.status = 200

\* The ghost order of accesses: k becomes the latest, and keys that left the
\* cache are forgotten.
Touch(order, k, c) ==
    SelectSeq(Append(SelectSeq(order, LAMBDA x : x # k), k),
              LAMBDA x : x \in Keys(c))

\* What fn main may find at secrets.toml: no file, a file that is not TOML,
\* a TOML file without the key openai_key, a file with the key.
SecretsFiles == {"absent", "malformed", "no_key", "good"}

\* fn main at its first statement, secrets.toml being `file`.
Starting(file) ==
    [pc |-> "build", file |-> file, listener |-> FALSE, port_printed |-> FALSE,
     cause |-> "none"]

\* fn main awaiting HttpServer::run(): the listener is bound, the port is
\* printed and the secrets are read.
Serving ==
    [pc |-> "serving", file |-> "good", listener |-> TRUE, port_printed |-> TRUE,
     cause |-> "none"]

Init ==
    /\ speech_cache = <<>>
    /\ lock = 0
    /\ running = 0
    /\ pc = [t \in Tasks |-> "idle"]
    /\ info = [t \in Tasks |-> NoParams]
    /\ res = [t \in Tasks |-> NoRes]
    /\ result_bytes = [t \in Tasks |-> NoBytes]
    /\ calls = [t \in Tasks |-> 0]
    /\ locks = [t \in Tasks |-> 0]
    /\ follows = [t \in Tasks |-> FALSE]
    /\ access_order = <<>>
    /\ ejected = {}
    /\ replaced = NoBytes
    /\ main = Serving
    /\ delivered = NoReply

\* Task t ends with `response`, the provider having answered `reply` (if it
\* was asked): the response is delivered and the slot is free.
Finish(t, response, reply, nlocks) ==
    /\ delivered' = [info |-> info[t], resp |-> response, res |-> Summary(reply),
                     calls |-> calls[t], locks |-> nlocks]
    /\ pc' = [pc EXCEPT ![t] = "idle"]
    /\ info' = [info EXCEPT ![t] = NoParams]
    /\ res' = [res EXCEPT ![t] = NoRes]
    /\ result_bytes' = [result_bytes EXCEPT ![t] = NoBytes]
    /\ calls' = [calls EXCEPT ![t] = 0]
    /\ locks' = [locks EXCEPT ![t] = 0]
    /\ follows' = [follows EXCEPT ![t] = FALSE]

----------------------------------------------------------------------------
(* get_speech, one action per step of the handler *)

\* The worker takes a request with parameters p and enters the handler.
Receive(t, p) ==
    /\ running = 0
    /\ pc[t] = "idle"
    /\ \A u \in Tasks : u < t => pc[u] # "idle"
    /\ info' = [info EXCEPT ![t] = p]
    /\ pc' = [pc EXCEPT ![t] = "validate"]
    /\ running' = t
    /\ follows' = [follows EXCEPT ![t] = delivered # NoReply]
    /\ UNCHANGED <<speech_cache, lock, res, result_bytes, calls, locks,
                   access_order, ejected, replaced, main, delivered>>

\* A variant that looks the key up before it checks the text.
ValidateAfterLookup(t) ==
    /\ running = t
    /\ pc[t] = "validate"
    /\ lock = 0
    /\ speech_cache' = speech_cache_get(speech_cache, cache_key(info[t])).cache
    /\ IF text_too_long(info[t])
       THEN /\ Finish(t, BadRequest, res[t], locks[t] + 1)
            /\ running' = 0
       ELSE /\ pc' = [pc EXCEPT ![t] = "lock_lookup"]
            /\ UNCHANGED <<running, info, res, result_bytes, calls, locks,
                           follows, delivered>>
    /\ UNCHANGED <<lock, access_order, ejected, replaced, main>>

\* if info.text.len() > 100 { return BadRequest "text too long" }; then
\* volume_factor, openai_params and cache_key are built.
Validate(t) ==
    /\ running = t
    /\ pc[t] = "validate"
    /\ IF text_too_long(info[t])
       THEN /\ Finish(t, BadRequest, res[t], locks[t])
            /\ running' = 0
       ELSE /\ pc' = [pc EXCEPT ![t] = "lock_lookup"]
            /\ UNCHANGED <<running, info, res, result_bytes, calls, locks,
                           follows, delivered>>
    /\ UNCHANGED <<speech_cache, lock, access_order, ejected, replaced, main>>

\* state.shared.lock(), in the match scrutinee
LockLookup(t) ==
    /\ running = t
    /\ pc[t] = "lock_lookup"
    /\ lock = 0
    /\ lock' = t
    /\ locks' = [locks EXCEPT ![t] = @ + 1]
    /\ pc' = [pc EXCEPT ![t] = "lookup"]
    /\ UNCHANGED <<speech_cache, running, info, res, result_bytes, calls,
                   follows, access_order, ejected, replaced, main, delivered>>

\* .speech_cache.get(&cache_key); Some(cached) is cloned for the response.
CacheLookup(t) ==
    /\ running = t
    /\ pc[t] = "lookup"
    /\ lock = t
    /\ LET got == speech_cache_get(speech_cache, cache_key(info[t])) IN
       /\ speech_cache' = got.cache
       /\ IF got.hit
          THEN /\ result_bytes' = [result_bytes EXCEPT ![t] = got.value]
               /\ pc' = [pc EXCEPT ![t] = "hit"]
               /\ access_order' =
                     Touch(access_order, cache_key(info[t]), got.cache)
          ELSE /\ pc' = [pc EXCEPT ![t] = "miss"]
               /\ UNCHANGED <<result_bytes, access_order>>
    /\ UNCHANGED <<lock, running, info, res, calls, locks, follows, ejected,
                   replaced, main,
                   delivered>>

guard_kept(t) == t
\* The MutexGuard is a temporary of the match scrutinee: it is dropped where
\* the match ends, on return in the hit arm and before the POST otherwise.
guard_dropped(t) == 0

\* Some(cached) => return HttpResponse::Ok()...body(cached.clone())
ReturnHit(t) ==
    /\ running = t
    /\ pc[t] = "hit"
    /\ lock' = guard_dropped(t)
    /\ Finish(t, OkAudio(result_bytes[t]), res[t], locks[t])
    /\ running' = 0
    /\ UNCHANGED <<speech_cache, access_order, ejected, replaced, main>>

\* None => {}: the match ends; client.post(..).json(&openai_params).send()
\* is awaited and the task is suspended.
SendRequest(t) ==
    /\ running = t
    /\ pc[t] = "miss"
    /\ lock' = guard_dropped(t)
    /\ calls' = [calls EXCEPT ![t] = @ + 1]
    /\ pc' = [pc EXCEPT ![t] = "await_send"]
    /\ running' = 0
    /\ follows' = [follows EXCEPT ![t] = FALSE]
    /\ delivered' = NoReply
    /\ UNCHANGED <<speech_cache, info, res, result_bytes, locks, access_order,
                   ejected, replaced, main>>

\* send().await completes.  Err(err) and a status other than 200 are answered
\* with 500 at once; on 200 the handler awaits the body.
ProviderReply(t, o) ==
    /\ running = 0
    /\ pc[t] = "await_send"
    /\ IF o.kind = "Err"
       THEN Finish(t, ServerError("Error"), o, locks[t])
       ELSE IF ~status_is_200(o)
       THEN Finish(t, ServerError("Invalid"), o, locks[t])
       ELSE /\ res' = [res EXCEPT ![t] = o]
            /\ pc' = [pc EXCEPT ![t] = "await_bytes"]
            /\ delivered' = NoReply
            /\ UNCHANGED <<info, result_bytes, calls, locks, follows>>
    /\ UNCHANGED <<speech_cache, lock, running, access_order, ejected,
                   replaced, main>>

\* res.bytes().await.unwrap(): the body arrives, or reading it fails and the
\* unwrap panics.
BodyReply(t, b) ==
    /\ running = 0
    /\ pc[t] = "await_bytes"
    /\ IF b.kind = "Ok"
       THEN /\ result_bytes' = [result_bytes EXCEPT ![t] = b.bytes]
            /\ pc' = [pc EXCEPT ![t] = "transcode"]
            /\ running' = t
            /\ delivered' = NoReply
            /\ UNCHANGED <<info, res, calls, locks, follows>>
       ELSE /\ Finish(t, Aborted, res[t], locks[t])
            /\ UNCHANGED running
    /\ UNCHANGED <<speech_cache, lock, access_order, ejected, replaced, main>>

\* let result_bytes = apply_volume_factor(result_bytes, volume_factor): every
\* failure inside is an expect() or unwrap(), a panic.
Transcode(t) ==
    /\ running = t
    /\ pc[t] = "transcode"
    /\ IF apply_volume_factor_panics(result_bytes[t])
       THEN /\ Finish(t, Aborted, res[t], locks[t])
            /\ running' = 0
       ELSE /\ result_bytes' = [result_bytes EXCEPT ![t] =
                    apply_volume_factor(result_bytes[t], volume_factor(info[t]))]
            /\ pc' = [pc EXCEPT ![t] = "lock_insert"]
            /\ UNCHANGED <<running, info, res, calls, locks, follows, delivered>>
    /\ UNCHANGED <<speech_cache, lock, access_order, ejected, replaced, main>>

\* state.shared.lock(), in the insert statement
LockInsert(t) ==
    /\ running = t
    /\ pc[t] = "lock_insert"
    /\ lock = 0
    /\ lock' = t
    /\ locks' = [locks EXCEPT ![t] = @ + 1]
    /\ pc' = [pc EXCEPT ![t] = "insert"]
    /\ UNCHANGED <<speech_cache, running, info, res, result_bytes, calls,
                   follows, access_order, ejected, replaced, main, delivered>>

\* A variant that unwraps the result of the insert: an entry refused as too
\* large is a panic.
CacheInsertUnwrapped(t) ==
    /\ running = t
    /\ pc[t] = "insert"
    /\ lock = t
    /\ speech_cache' =
          speech_cache_insert(speech_cache, cache_key(info[t]), result_bytes[t])
    /\ access_order' =
          IF entry_size(cache_key(info[t]), result_bytes[t]) <= max_size
          THEN Touch(access_order, cache_key(info[t]), speech_cache')
          ELSE access_order
    /\ IF entry_size(cache_key(info[t]), result_bytes[t]) <= max_size
       THEN /\ ejected' = Keys(speech_cache) \ Keys(speech_cache')
            /\ replaced' = LruPeek(speech_cache, cache_key(info[t])).value
            /\ pc' = [pc EXCEPT ![t] = "respond"]
            /\ UNCHANGED <<lock, running, info, res, result_bytes, calls, locks,
                           follows, delivered>>
       ELSE /\ Finish(t, Aborted, res[t], locks[t])
            /\ lock' = 0
            /\ running' = 0
            /\ UNCHANGED <<ejected, replaced>>
    /\ UNCHANGED main

\* let _ = ... .speech_cache.insert(cache_key, result_bytes.clone().into());
\* the result, an error included, is dropped.
CacheInsert(t) ==
    /\ running = t
    /\ pc[t] = "insert"
    /\ lock = t
    /\ speech_cache' =
          speech_cache_insert(speech_cache, cache_key(info[t]), result_bytes[t])
    /\ access_order' =
          IF entry_size(cache_key(info[t]), result_bytes[t]) <= max_size
          THEN Touch(access_order, cache_key(info[t]), speech_cache')
          ELSE access_order
    /\ ejected' = Keys(speech_cache) \ Keys(speech_cache')
    /\ replaced' = LruPeek(speech_cache, cache_key(info[t])).value
    /\ pc' = [pc EXCEPT ![t] = "respond"]
    /\ UNCHANGED <<lock, running, info, res, result_bytes, calls, locks,
                   follows, main, delivered>>

\* The guard is dropped at the end of the insert statement; the handler
\* answers 200 with result_bytes.
Respond(t) ==
    /\ running = t
    /\ pc[t] = "respond"
    /\ lock' = 0
    /\ Finish(t, OkAudio(result_bytes[t]), res[t], locks[t])
    /\ running' = 0
    /\ ejected' = {}
    /\ replaced' = NoBytes
    /\ UNCHANGED <<speech_cache, access_order, main>>

Next ==
    \E t \in Tasks :
        \/ \E p \in Menu : Receive(t, p)
        \/ Validate(t)
        \/ LockLookup(t)
        \/ CacheLookup(t)
        \/ ReturnHit(t)
        \/ SendRequest(t)
        \/ \E o \in Outcomes : ProviderReply(t, o)
        \/ \E b \in Bodies(info[t]) : BodyReply(t, b)
        \/ Transcode(t)
        \/ LockInsert(t)
        \/ CacheInsert(t)
        \/ Respond(t)

Spec == Init /\ [][Next]_vars

----------------------------------------------------------------------------
(* fn main, one action per statement, followed by the serving of requests *)

\* What the handler's variables are before a request arrives.
NoRequests ==
    /\ speech_cache = <<>>
    /\ lock = 0
    /\ running = 0
    /\ pc = [t \in Tasks |-> "idle"]
    /\ info = [t \in Tasks |-> NoParams]
    /\ res = [t \in Tasks |-> NoRes]
    /\ result_bytes = [t \in Tasks |-> NoBytes]
    /\ calls = [t \in Tasks |-> 0]
    /\ locks = [t \in Tasks |-> 0]
    /\ follows = [t \in Tasks |-> FALSE]
    /\ access_order = <<>>
    /\ ejected = {}
    /\ replaced = NoBytes
    /\ delivered = NoReply

InitMain ==
    /\ NoRequests
    /\ \E file \in SecretsFiles : main = Starting(file)

\* fn main panics: the process ends.
Abort(cause) == main' = [main EXCEPT !.pc = "aborted", !.cause = cause]

\* config::Config::builder().add_source(File::with_name("secrets.toml"))
\* .build().unwrap(): the file is read and parsed; no file or no TOML is an
\* Err, and the unwrap panics.
BuildConfig ==
    /\ main.pc = "build"
    /\ IF main.file \in {"absent", "malformed"}
       THEN Abort("credentials")
       ELSE main' = [main EXCEPT !.pc = "bind"]
    /\ UNCHANGED <<speech_cache, lock, running, pc, info, res, result_bytes,
                   calls, locks, follows, access_order, ejected, replaced,
                   delivered>>

\* TcpListener::bind((host, port)).expect("Cannot bind to port")
BindListener(ok) ==
    /\ main.pc = "bind"
    /\ IF ok
       THEN main' = [main EXCEPT !.pc = "print", !.listener = TRUE]
       ELSE Abort("bind")
    /\ UNCHANGED <<speech_cache, lock, running, pc, info, res, result_bytes,
                   calls, locks, follows, access_order, ejected, replaced,
                   delivered>>

\* println!("Start server on http://{}:{}", args.host, actual_port)
PrintPort ==
    /\ main.pc = "print"
    /\ main' = [main EXCEPT !.pc = "deserialize", !.port_printed = TRUE]
    /\ UNCHANGED <<speech_cache, lock, running, pc, info, res, result_bytes,
                   calls, locks, follows, access_order, ejected, replaced,
                   delivered>>

\* let secrets: Secrets = settings.try_deserialize().unwrap(): without the
\* field openai_key the result is an Err, and the unwrap panics.  With it, the
\* state is built and the server runs.
DeserializeSecrets ==
    /\ main.pc = "deserialize"
    /\ IF main.file = "no_key"
       THEN Abort("credentials")
       ELSE main' = [main EXCEPT !.pc = "serving"]
    /\ UNCHANGED <<speech_cache, lock, running, pc, info, res, result_bytes,
                   calls, locks, follows, access_order, ejected, replaced,
                   delivered>>

\* HttpServer::new(..).workers(1).listen(listener)?.run().await
Serve ==
    /\ main.pc = "serving"
    /\ Next

NextMain ==
    \/ BuildConfig
    \/ \E ok \in BOOLEAN : BindListener(ok)
    \/ PrintPort
    \/ DeserializeSecrets
    \/ Serve

SpecMain == InitMain /\ [][NextMain]_vars

----------------------------------------------------------------------------
(* Properties *)

Rank(order, k) == CHOOSE i \in 1 .. Len(order) : order[i] = k

\* Task t is at the step after its insert.
Inserted(t) == pc[t] = "respond"

\* C1: in every state, the accounted sizes (key plus value) of the entries in
\* the cache sum to at most the capacity of 16 MiB.
C1_CacheWithinCapacity == current_size(speech_cache) <= 16 * 1024 * 1024

\* An insert that had to remove an entry to make room has acted.
C1_Witness ==
    \E t \in Tasks : Inserted(t) /\ ejected # {} /\ speech_cache # <<>>

\* C2: every key an insert removes was last accessed (by a hit or an insert)
\* before every key that stays; the key being inserted is accessed by the
\* insert itself.
C2_EvictionIsLru ==
    [][\A t \in Tasks :
          (pc[t] = "insert" /\ pc'[t] = "respond") =>
              \A e \in Keys(speech_cache) \ Keys(speech_cache') :
                  \A f \in Keys(speech_cache') \ {cache_key(info[t])} :
                      Rank(access_order, e) < Rank(access_order, f)]_vars

\* An insert removed one entry and kept another one, older in the cache
\* than the one inserted.
C2_Witness ==
    \E t \in Tasks :
        Inserted(t) /\ ejected # {} /\ Len(speech_cache) = 2

\* Task t finishes in this step.
Finishes(t) == pc[t] # "idle" /\ pc'[t] = "idle"

\* The request of task t passed validation and directly follows an identical
\* one.
Repeats(t) ==
    /\ pc[t] \notin {"idle", "validate"}
    /\ follows[t]
    /\ info[t] = delivered.info

\* The request `delivered` was answered 200 with bytes the cache can hold.
DeliveredAndStored ==
    /\ delivered.resp.status = 200
    /\ entry_size(cache_key(delivered.info), delivered.resp.body) <= max_size

\* C3 as stated, for requests that pass validation: two identical requests in
\* a row, nothing in between, make one provider call together and get the
\* same response.
C3_OneCallSameResponse ==
    [][\A t \in Tasks :
          Repeats(t) =>
              /\ Finishes(t) =>
                    /\ delivered.calls + delivered'.calls = 1
                    /\ delivered'.resp = delivered.resp
              /\ pc'[t] = "await_send" => delivered.calls = 0]_vars

\* C3, amended: when the first of two identical requests in a row was answered
\* 200 and its entry is not larger than the cache, the second one calls the
\* provider not at all and gets the same response, so that the two make at
\* most one provider call (one when the first was a miss).
C3_RepeatServedFromCache ==
    [][\A t \in Tasks :
          (Repeats(t) /\ DeliveredAndStored) =>
              /\ pc'[t] # "await_send"
              /\ Finishes(t) =>
                    /\ delivered'.calls = 0
                    /\ delivered.calls + delivered'.calls <= 1
                    /\ delivered'.resp = delivered.resp]_vars

\* A request repeats the one before it, which was a miss answered 200, and
\* is a hit.
C3_Witness ==
    \E t \in Tasks :
        /\ Repeats(t) /\ DeliveredAndStored /\ delivered.calls = 1
        /\ pc[t] = "hit"

\* C4: a hit returns bytes made for the request's own text, voice and volume,
\* and an insert leaves the bytes stored for the same text and voice at another
\* volume as they are (it may evict them, never replace them).
C4_KeyCompleteness ==
    [][\A t \in Tasks :
          /\ (pc[t] = "lookup" /\ pc'[t] = "hit") =>
                /\ result_bytes'[t].gain = volume_factor(info[t])
                /\ result_bytes'[t].desc = openai_params(info[t])
          /\ (pc[t] = "insert" /\ pc'[t] = "respond") =>
                \A i \in 1 .. Len(speech_cache) :
                    (/\ speech_cache[i].value.desc = openai_params(info[t])
                     /\ speech_cache[i].value.gain # volume_factor(info[t])) =>
                        \A j \in 1 .. Len(speech_cache') :
                            speech_cache'[j].key = speech_cache[i].key =>
                                speech_cache'[j].value = speech_cache[i].value]_vars

\* The cache holds the same text and voice at two volumes, and a lookup of
\* one of them has hit.
C4_Witness ==
    \E t \in Tasks :
        /\ pc[t] = "hit"
        /\ \E i, j \in 1 .. Len(speech_cache) :
              /\ speech_cache[i].key.request = speech_cache[j].key.request
              /\ speech_cache[i].key.volume_factor # speech_cache[j].key.volume_factor
              /\ speech_cache[j].key = cache_key(info[t])

\* C5: a task that awaits the provider (the response or its body) or runs
\* the transcoder does not hold the mutex; up to there it locked once, for
\* the lookup, and it locks a second time for the insert.
C5_NoLockAcrossAwait ==
    \A t \in Tasks :
        /\ pc[t] \in {"await_send", "await_bytes", "transcode", "lock_insert"} =>
              (lock # t /\ locks[t] = 1)
        /\ pc[t] \in {"insert", "respond"} => (lock = t /\ locks[t] = 2)

\* One request awaits the provider while another one holds the mutex.
C5_Witness ==
    \E t, u \in Tasks :
        t # u /\ pc[t] \in {"await_send", "await_bytes"} /\ lock = u

\* The provider answered with an error or with a status other than 200.
ProviderFailed(summary) ==
    summary.kind = "Err" \/ (summary.kind = "Ok" /\ summary.status # 200)

\* C6: a request whose provider call fails is answered 500 in the step the
\* failure arrives in: it made that one call, locked the cache for its lookup
\* only, and the cache stays as it is.
C6_ProviderFailure ==
    [][\A t \in Tasks :
          (Finishes(t) /\ ProviderFailed(delivered'.res)) =>
              /\ pc[t] = "await_send"
              /\ delivered'.resp.status = 500
              /\ delivered'.calls = 1
              /\ delivered'.locks = 1
              /\ speech_cache' = speech_cache
              /\ access_order' = access_order]_vars

\* A request whose provider call failed has been answered, the cache holding
\* an entry.
C6_Witness == ProviderFailed(delivered.res) /\ speech_cache # <<>>

\* C7: a request whose provider answered 200 and which is not answered 200
\* (reading the body or transcoding failed) is answered 500.
C7_FailureAnswered500 ==
    (/\ delivered.res.kind = "Ok"
     /\ delivered.res.status = 200
     /\ delivered.resp.status # 200) => delivered.resp.status = 500

C9_ValidationShortCircuits ==
    [][\A t \in Tasks :
          (Finishes(t) /\ delivered'.resp = BadRequest) =>
              /\ pc[t] = "validate"
              /\ delivered'.locks = 0
              /\ delivered'.calls = 0
              /\ speech_cache' = speech_cache
              /\ access_order' = access_order
              /\ lock' = lock]_vars

\* A request with a text too long was answered 400 while the cache holds an
\* entry and another request awaits the provider.
C9_Witness ==
    /\ delivered.resp = BadRequest
    /\ text_too_long(delivered.info)
    /\ speech_cache # <<>>
    /\ \E t \in Tasks : pc[t] = "await_send"

----------------------------------------------------------------------------
(* The validation boundary: requests with texts around the limit, served   *)
(* one at a time.                                                          *)

\* Texts of TextLimit and TextLimit + 1 characters and bytes: ASCII only,
\* with one two-byte character, and of two-byte characters only.
BoundaryTexts ==
    {<<Run(1, TextLimit)>>,
     <<Run(1, TextLimit + 1)>>,
     <<Run(1, TextLimit - 1), Run(2, 1)>>,
     <<Run(2, TextLimit \div 2)>>,
     <<Run(2, TextLimit)>>,
     <<Run(1, TextLimit), Run(2, 1)>>}

BoundaryMenu ==
    {Params(text, voice, volume) :
        text \in BoundaryTexts, voice \in {Absent, "nova"},
        volume \in {Absent, "2.0"}}

\* A request arrives while no other one is in flight.
ReceiveAlone(t, p) ==
    /\ \A u \in Tasks : pc[u] = "idle"
    /\ Receive(t, p)

NextBoundary ==
    \E t \in Tasks :
        \/ \E p \in BoundaryMenu : ReceiveAlone(t, p)
        \/ Validate(t)
        \/ LockLookup(t)
        \/ CacheLookup(t)
        \/ ReturnHit(t)
        \/ SendRequest(t)
        \/ \E o \in Outcomes : ProviderReply(t, o)
        \/ \E b \in Bodies(info[t]) : BodyReply(t, b)
        \/ Transcode(t)
        \/ LockInsert(t)
        \/ CacheInsert(t)
        \/ Respond(t)

SpecBoundary == Init /\ [][NextBoundary]_vars

\* The request of task t passed the length check.
Passed(t) == pc[t] \notin {"idle", "validate"}

\* C10 as stated, the length counted in characters: a text of 100 characters
\* passes validation and a text of 101 characters is answered 400 "text too
\* long", whatever the voice and the volume.
C10_CharacterBoundary ==
    /\ \A t \in Tasks : Passed(t) => CharCount(info[t].text) # TextLimit + 1
    /\ delivered.resp = BadRequest => CharCount(delivered.info.text) # TextLimit
    /\ (delivered # NoReply /\ CharCount(delivered.info.text) = TextLimit + 1) =>
          delivered.resp = BadRequest

\* C10, amended, the length counted in bytes of UTF-8: a text of at most 100
\* bytes passes validation and a text of more than 100 bytes is answered 400
\* "text too long", whatever the voice and the volume; so a text of 101
\* characters is always answered 400.
C10_ByteBoundary ==
    /\ \A t \in Tasks : Passed(t) => Utf8Len(info[t].text) <= TextLimit
    /\ delivered.resp = BadRequest => Utf8Len(delivered.info.text) > TextLimit
    /\ (delivered # NoReply /\ Utf8Len(delivered.info.text) > TextLimit) =>
          delivered.resp = BadRequest
    /\ (delivered # NoReply /\ CharCount(delivered.info.text) = TextLimit + 1) =>
          delivered.resp = BadRequest

\* A text of 100 characters and 101 bytes was answered 400, and the text of
\* the next request, 100 bytes in 50 characters, passed.
C10_Witness ==
    /\ delivered.resp = BadRequest
    /\ CharCount(delivered.info.text) = TextLimit
    /\ Utf8Len(delivered.info.text) = TextLimit + 1
    /\ \E t \in Tasks :
          /\ Passed(t)
          /\ Utf8Len(info[t].text) = TextLimit
          /\ CharCount(info[t].text) < TextLimit

----------------------------------------------------------------------------
(* Startup *)

\* C13: fn main never aborts because of the credentials file once the
\* listener is bound or the port is printed.
C13_AbortBeforeBind ==
    (main.pc = "aborted" /\ main.cause = "credentials") =>
        (~main.listener /\ ~main.port_printed)

----------------------------------------------------------------------------
(* Volumes and defaults: requests for one text with the voice and the      *)
(* volume left out or given, served one at a time.  A volume is named by   *)
(* the f32 its text parses to.                                             *)

VolumeMenu ==
    {Params(Hi, voice, volume) :
        voice \in {Absent, "echo"}, volume \in {Absent, "1.0", "inf", "NaN"}}

\* volume: Option<NotNan<f32>>: deserializing the query fails on a NaN, and
\* on nothing else that parses as an f32.
query_rejected(q) == q.volume = "NaN"

\* What the Query extractor answers when deserializing fails.
BadQuery == [status |-> 400, body |-> "Query deserialize error"]

\* A request arrives with the query q: web::Query<SpeechRequestParams> is
\* extracted, and get_speech is entered if that succeeds.
ReceiveQuery(t, q) ==
    IF query_rejected(q)
    THEN /\ running = 0
         /\ \A u \in Tasks : pc[u] = "idle"
         /\ t = 1
         /\ delivered' = [info |-> q, resp |-> BadQuery, res |-> Summary(NoRes),
                          calls |-> 0, locks |-> 0]
         /\ UNCHANGED <<speech_cache, lock, running, pc, info, res,
                        result_bytes, calls, locks, follows, access_order,
                        ejected, replaced, main>>
    ELSE ReceiveAlone(t, q)

NextVolumes ==
    \E t \in Tasks :
        \/ \E q \in VolumeMenu : ReceiveQuery(t, q)
        \/ Validate(t)
        \/ LockLookup(t)
        \/ CacheLookup(t)
        \/ ReturnHit(t)
        \/ SendRequest(t)
        \/ \E o \in Outcomes : ProviderReply(t, o)
        \/ \E b \in Bodies(info[t]) : BodyReply(t, b)
        \/ Transcode(t)
        \/ LockInsert(t)
        \/ CacheInsert(t)
        \/ Respond(t)

SpecVolumes == Init /\ [][NextVolumes]_vars

\* A gain that is a finite number.
IsFinite(gain) == gain \notin {"inf", "NaN"}

\* C11: the gain of a request that is at or past the cache lookup is finite;
\* a request with a volume that is NaN or infinite is answered 400 without a
\* lock of the cache and without a provider call; the gain of a request
\* without a volume is 1.0.
C11_GainIsFinite ==
    /\ \A t \in Tasks :
          Passed(t) =>
              /\ IsFinite(volume_factor(info[t]))
              /\ info[t].volume = Absent => volume_factor(info[t]) = "1.0"
    /\ (delivered # NoReply /\ ~IsFinite(volume_factor(delivered.info))) =>
          /\ delivered.resp.status = 400
          /\ delivered.calls = 0
          /\ delivered.locks = 0

\* What a query asks for: its text, its voice or "echo", its volume or 1.0.
Meaning(q) ==
    <<q.text, IF q.voice = Absent THEN "echo" ELSE q.voice,
      IF q.volume = Absent THEN "1.0" ELSE q.volume>>

\* The request of task t passed validation and directly follows one that
\* asked for the same with another query.
Rephrases(t) ==
    /\ pc[t] \notin {"idle", "validate"}
    /\ follows[t]
    /\ info[t] # delivered.info
    /\ Meaning(info[t]) = Meaning(delivered.info)

\* C12: two queries that differ only in leaving out the voice "echo" or the
\* volume 1.0 have the same cache key; when one of them was answered 200 with
\* bytes the cache holds, the other one, coming next, is answered the same
\* without a provider call.
C12_DefaultsShareKey ==
    [][\A t \in Tasks :
          Rephrases(t) =>
              /\ cache_key(info[t]) = cache_key(delivered.info)
              /\ DeliveredAndStored =>
                    /\ pc'[t] # "await_send"
                    /\ pc[t] = "lookup" => pc'[t] = "hit"
                    /\ Finishes(t) =>
                          /\ delivered'.calls = 0
                          /\ delivered'.resp = delivered.resp]_vars

\* A query without voice and volume is a hit right after the query with
\* "echo" and 1.0 was a miss answered 200, or the other way round.
C12_Witness ==
    \E t \in Tasks :
        /\ Rephrases(t) /\ DeliveredAndStored /\ delivered.calls = 1
        /\ pc[t] = "hit"
        /\ \/ (info[t].voice = Absent /\ info[t].volume = Absent
                /\ delivered.info.voice = "echo" /\ delivered.info.volume = "1.0")
           \/ (info[t].voice = "echo" /\ info[t].volume = "1.0"
                /\ delivered.info.voice = Absent /\ delivered.info.volume = Absent)

----------------------------------------------------------------------------
(* Inserts *)

\* The entries of cache c under key k.
EntriesOf(c, k) == {i \in 1 .. Len(c) : c[i].key = k}

\* Task t has inserted under a key that it had missed and that an insert of
\* another request, in flight with it, had filled since: t's insert is the
\* later one of the two.
InsertedLater(t) == Inserted(t) /\ replaced # NoBytes

\* The entry task t inserts is not larger than the cache.
Fits(t) == entry_size(cache_key(info[t]), result_bytes[t]) <= max_size

\* C14 as stated: after the later insert of two requests that missed the
\* same key, each having called the provider, the cache holds exactly one
\* entry of the key, with the value of the later insert, within the capacity.
C14_LastInsertWins ==
    \A t \in Tasks :
        InsertedLater(t) =>
            /\ calls[t] = 1
            /\ Cardinality(EntriesOf(speech_cache, cache_key(info[t]))) = 1
            /\ LruPeek(speech_cache, cache_key(info[t])).value = result_bytes[t]
            /\ current_size(speech_cache) <= max_size

\* C14, amended: requests past a miss of the same key have each called the
\* provider once; after the later insert the cache holds exactly one entry
\* of the key, within the capacity: with the value of the later insert when
\* that entry is not larger than the cache, and with the value of the earlier
\* insert, the later one being refused, when it is.
C14_LastFittingInsertWins ==
    /\ \A t, u \in Tasks :
          (/\ t # u
           /\ cache_key(info[t]) = cache_key(info[u])
           /\ {pc[t], pc[u]} \subseteq {"await_send", "await_bytes", "transcode",
                                        "lock_insert", "insert", "respond"}) =>
              (calls[t] = 1 /\ calls[u] = 1)
    /\ \A t \in Tasks :
          InsertedLater(t) =>
              /\ calls[t] = 1
              /\ Cardinality(EntriesOf(speech_cache, cache_key(info[t]))) = 1
              /\ LruPeek(speech_cache, cache_key(info[t])).value =
                    IF Fits(t) THEN result_bytes[t] ELSE replaced
              /\ current_size(speech_cache) <= max_size

\* The later insert has put its value in the place of another one, written
\* by the earlier insert.
C14_Witness ==
    \E t \in Tasks :
        /\ InsertedLater(t)
        /\ Fits(t)
        /\ replaced # result_bytes[t]
        /\ LruPeek(speech_cache, cache_key(info[t])).value = result_bytes[t]

\* C15: the insert of an entry larger than the cache ends without a panic
\* and leaves the cache as it was, within its capacity; the request is then
\* answered 200 with the bytes the transcoder made.
C15_OversizedEntry ==
    [][\A t \in Tasks :
          /\ (pc[t] = "insert" /\ ~Fits(t)) =>
                /\ pc'[t] = "respond"
                /\ speech_cache' = speech_cache
                /\ current_size(speech_cache') <= max_size
          /\ (pc[t] = "respond" /\ ~Fits(t)) =>
                /\ Finishes(t)
                /\ delivered'.resp.status = 200
                /\ delivered'.resp.body = result_bytes[t]
                /\ delivered'.resp.body.by = "lame"
                /\ speech_cache' = speech_cache]_vars

\* A request was answered 200 with bytes too large for the cache, which
\* holds another entry.
C15_Witness ==
    /\ delivered.resp.status = 200
    /\ entry_size(cache_key(delivered.info), delivered.resp.body) > max_size
    /\ speech_cache # <<>>

----------------------------------------------------------------------------
(* Hits *)

\* The entries of cache c, their order aside.
Contents(c) == {c[i] : i \in 1 .. Len(c)}

\* C16: a lookup of a key in the cache is a hit with the value stored under
\* the key; it leaves the entries as they are, keys and values, and the order
\* of the other entries, the entry hit becoming the most recently used.  The
\* request is then answered 200 with that value, the cache left as it is,
\* without a provider call and without a second lock of the cache (which an
\* insert would take).
C16_HitFrame ==
    [][\A t \in Tasks :
          /\ (pc[t] = "lookup" /\ cache_key(info[t]) \in Keys(speech_cache)) =>
                /\ pc'[t] = "hit"
                /\ \A i \in EntriesOf(speech_cache, cache_key(info[t])) :
                      result_bytes'[t] = speech_cache[i].value
                /\ Contents(speech_cache') = Contents(speech_cache)
                /\ Len(speech_cache') = Len(speech_cache)
                /\ speech_cache'[Len(speech_cache')].key = cache_key(info[t])
                /\ Without(speech_cache', cache_key(info[t])) =
                      Without(speech_cache, cache_key(info[t]))
                /\ calls'[t] = 0
          /\ pc[t] = "hit" =>
                /\ Finishes(t)
                /\ speech_cache' = speech_cache
                /\ delivered'.resp = OkAudio(result_bytes[t])
                /\ delivered'.calls = 0
                /\ delivered'.locks = 1
                /\ delivered'.res = Summary(NoRes)
                /\ result_bytes[t].by = "lame"]_vars

\* A lookup has hit one of two entries, now the most recently used one.
C16_Witness ==
    \E t \in Tasks :
        /\ pc[t] = "hit"
        /\ Len(speech_cache) = 2
        /\ Len(access_order) = 2
        /\ speech_cache[2].key = cache_key(info[t])
        /\ speech_cache[2].value = result_bytes[t]

----------------------------------------------------------------------------
(* Inserts that fit *)

\* C17: the insert of an entry not larger than the cache leaves the cache
\* with exactly one entry of the key, holding the value inserted and no
\* older one; the key is not among the keys the insert removes, and the
\* cache is within its capacity.
C17_InsertOrReplace ==
    [][\A t \in Tasks :
          (pc[t] = "insert" /\ Fits(t)) =>
              /\ pc'[t] = "respond"
              /\ Cardinality(EntriesOf(speech_cache', cache_key(info[t]))) = 1
              /\ \A i \in EntriesOf(speech_cache', cache_key(info[t])) :
                    speech_cache'[i].value = result_bytes[t]
              /\ cache_key(info[t]) \notin Keys(speech_cache) \ Keys(speech_cache')
              /\ cache_key(info[t]) \notin ejected'
              /\ current_size(speech_cache') <= max_size]_vars

\* An insert has removed another entry to make room, and the cache holds
\* the value inserted.
C17_Witness ==
    \E t \in Tasks :
        /\ Inserted(t)
        /\ Fits(t)
        /\ ejected # {}
        /\ replaced = NoBytes
        /\ \E i \in 1 .. Len(speech_cache) :
              speech_cache[i] = [key |-> cache_key(info[t]), value |-> result_bytes[t]]

----------------------------------------------------------------------------
(* The miss path *)

\* The steps of a request after a miss, in the order of the handler.
MissPath ==
    <<"miss", "await_send", "await_bytes", "transcode", "lock_insert",
      "insert", "respond">>

\* The place of step s in MissPath.
Place(s) == CHOOSE i \in 1 .. Len(MissPath) : MissPath[i] = s

OnMissPath(s) == \E i \in 1 .. Len(MissPath) : MissPath[i] = s

\* C18: after a miss a request goes through the steps provider call, body,
\* transcoding, insert and response in this order, or ends early.  The
\* transcoder gets the bytes as the provider sent them with status 200 and
\* makes the bytes encoded at the request's gain, 1.0 included, which no
\* later step changes; the entries of the cache change only in the insert
\* step, which has these bytes; the response is 200 with the same bytes,
\* which are the value of the key when the entry is not larger than the
\* cache.
C18_MissPathOrder ==
    [][/\ \A t \in Tasks :
            /\ (OnMissPath(pc[t]) /\ pc'[t] # pc[t] /\ ~Finishes(t)) =>
                  /\ OnMissPath(pc'[t])
                  /\ Place(pc'[t]) = Place(pc[t]) + 1
            /\ (pc'[t] # pc[t] /\ OnMissPath(pc'[t])) =>
                  \/ pc[t] = "lookup" /\ pc'[t] = "miss"
                  \/ OnMissPath(pc[t])
            /\ (pc[t] = "miss" /\ pc'[t] # pc[t]) => calls'[t] = 1
            /\ (pc[t] = "await_bytes" /\ pc'[t] = "transcode") =>
                  /\ res[t].status = 200
                  /\ [kind |-> "Ok", bytes |-> result_bytes'[t]] \in Bodies(info[t])
                  /\ result_bytes'[t].by = "provider"
            /\ (pc[t] = "transcode" /\ pc'[t] = "lock_insert") =>
                  /\ result_bytes[t].by = "provider"
                  /\ result_bytes'[t].by = "lame"
                  /\ result_bytes'[t].gain = volume_factor(info[t])
                  /\ result_bytes'[t].desc = result_bytes[t].desc
                  /\ result_bytes'[t].secs = result_bytes[t].secs
            /\ (pc[t] \in {"lock_insert", "insert"} /\ pc'[t] # pc[t]) =>
                  /\ res[t].status = 200
                  /\ calls[t] = 1
                  /\ result_bytes'[t] = result_bytes[t]
            /\ pc[t] = "respond" =>
                  /\ Finishes(t)
                  /\ delivered'.resp = OkAudio(result_bytes[t])
                  /\ delivered'.resp.body.by = "lame"
                  /\ delivered'.resp.body.gain = volume_factor(info[t])
                  /\ delivered'.calls = 1
                  /\ Fits(t) =>
                        LruPeek(speech_cache', cache_key(info[t])).value =
                            delivered'.resp.body
       /\ Contents(speech_cache') # Contents(speech_cache) =>
            \E t \in Tasks :
                /\ pc[t] = "insert" /\ pc'[t] = "respond"
                /\ result_bytes[t].by = "lame"
                /\ Contents(speech_cache') \ Contents(speech_cache) =
                      {[key |-> cache_key(info[t]), value |-> result_bytes[t]]}]_vars

\* A request at the gain 1.0 has inserted the bytes the transcoder made and
\* is about to answer with them.
C18_Witness ==
    \E t \in Tasks :
        /\ Inserted(t)
        /\ volume_factor(info[t]) = "1.0"
        /\ result_bytes[t].by = "lame"
        /\ result_bytes[t].gain = "1.0"
        /\ calls[t] = 1
        /\ LruPeek(speech_cache, cache_key(info[t])).value = result_bytes[t]

----------------------------------------------------------------------------
(* Progress: the worker goes on polling a task that can run, and the       *)
(* provider answers every call in the end.                                 *)

\* The worker runs task t up to its next await or to its end.
HandlerStep(t) ==
    \/ Validate(t)
    \/ LockLookup(t)
    \/ CacheLookup(t)
    \/ ReturnHit(t)
    \/ SendRequest(t)
    \/ Transcode(t)
    \/ LockInsert(t)
    \/ CacheInsert(t)
    \/ Respond(t)

\* The future task t awaits (send() or bytes()) is ready and the worker
\* polls the task.
ProviderAnswers(t) ==
    \/ \E o \in Outcomes : ProviderReply(t, o)
    \/ \E b \in Bodies(info[t]) : BodyReply(t, b)

FairSpec ==
    /\ Spec
    /\ \A t \in Tasks : WF_vars(HandlerStep(t)) /\ SF_vars(ProviderAnswers(t))

\* C19: every request in flight ends, and ends with a response; the mutex,
\* once held, is free again; a task about to lock the mutex does not hold
\* it; and the task that holds the mutex is the one the worker is running,
\* so that it reaches the release without another request taking a step.
C19_EveryRequestAnswered ==
    /\ \A t \in Tasks : (pc[t] # "idle") ~> (pc[t] = "idle")
    /\ (lock # 0) ~> (lock = 0)
    /\ [][\A t \in Tasks :
             Finishes(t) => delivered'.resp.status \in {200, 400, 500}]_vars
    /\ [](\A t \in Tasks :
             pc[t] \in {"lock_lookup", "lock_insert"} => lock # t)
    /\ [](lock # 0 => running = lock)

====
